---- MODULE Spec2Model ----
(***************************************************************************)
(* Model of src/src/main.rs: the board, the move simulator                 *)
(* (Board::make_move / Board::make_move_), the exhaustive tree builder     *)
(* (Tree::build) and the path ranker (Tree::find_max_paths).               *)
(*                                                                         *)
(* Rust arrays are 0-based, TLA+ sequences 1-based: sides[0] of the source *)
(* is sides[1] here, bins[i] of the source is bins[i + 1] here.  A         *)
(* FlatIndex and a Bin keep their 0-based numeric value.                   *)
(***************************************************************************)
EXTENDS Integers, Sequences, FiniteSets, TLC

\* Largest uniform starting count s of a Board::new(s) the search is run on.
MaxStart == 2
\* Largest number of stones on the sparse boards the search is run on.
MaxTotal == 3
\* Largest single heap of the boards whose first sowing laps the cycle.
MaxHeap == 14

\* type Amount = u8
AmountModulus == 256
\* FlatIndex::step: the cycle has 13 slots
Cycle == 13
\* Bin::ALL has 6 entries
NumBins == 6

\* `+=` on an Amount: the value a release build leaves (a debug build panics
\* on overflow); no count of the boards explored here comes near 255
Add8(a, b) == (a + b) % AmountModulus

(***************************************************************************)
(* Data model                                                              *)
(***************************************************************************)
BoardSideNew(start_with) ==
  [bins |-> [i \in 1..NumBins |-> start_with], mancala |-> 0]

BoardNew(start_with) ==
  [sides |-> <<BoardSideNew(start_with), BoardSideNew(start_with)>>]

\* impl From<Bin> for FlatIndex
FlatIndexFrom(bin) == bin

\* step without its `self.0 += 1`
FlatIndexStepStuck(i) == i % Cycle

\* a step that passes over the current player's store
FlatIndexStepSkippingStore(i) == IF i = 5 THEN 7 ELSE (i + 1) % Cycle

FlatIndexStep(i) == (i + 1) % Cycle

\* the opposite taken over 12 slots instead of 13
FlatIndexOppositeOffByOne(i) == 11 - i

FlatIndexOpposite(i) == 12 - i

FlatIndexKind(i) ==
  IF i \in 0..5 THEN [kind |-> "MyBins", idx |-> i]
  ELSE IF i = 6 THEN [kind |-> "MyMancala", idx |-> 0]
  ELSE [kind |-> "TheirBins", idx |-> i - 7]

\* impl Index<FlatIndex> for Board
BoardIndex(b, i) ==
  LET k == FlatIndexKind(i) IN
  IF k.kind = "MyBins" THEN b.sides[1].bins[k.idx + 1]
  ELSE IF k.kind = "MyMancala" THEN b.sides[1].mancala
  ELSE b.sides[2].bins[k.idx + 1]

\* MyMancala resolved on the other side: sides[1].mancala of the source
BoardIndexMutTheirStore(b, i, v) ==
  LET k == FlatIndexKind(i) IN
  IF k.kind = "MyBins" THEN [b EXCEPT !.sides[1].bins[k.idx + 1] = v]
  ELSE IF k.kind = "MyMancala" THEN [b EXCEPT !.sides[2].mancala = v]
  ELSE [b EXCEPT !.sides[2].bins[k.idx + 1] = v]

\* impl IndexMut<FlatIndex> for Board, followed by a store of v
BoardIndexMut(b, i, v) ==
  LET k == FlatIndexKind(i) IN
  IF k.kind = "MyBins" THEN [b EXCEPT !.sides[1].bins[k.idx + 1] = v]
  ELSE IF k.kind = "MyMancala" THEN [b EXCEPT !.sides[1].mancala = v]
  ELSE [b EXCEPT !.sides[2].bins[k.idx + 1] = v]

\* Option<T>
None == <<>>
Some(x) == <<x>>

\* enum Tree
TreeTurnOver(b) == [tag |-> "TurnOver", board |-> b]
TreeContinue(results) == [tag |-> "Continue", slots |-> results]

(***************************************************************************)
(* Boards the search is started on.  main starts it on Board::new(4);      *)
(* Tree::build and make_move take any Board, so the model starts it on     *)
(* Board::new(s) for small s, on every board of at most MaxTotal stones    *)
(* (stores empty), and on boards with one own bin holding a heap of at     *)
(* least one full lap of stones.                                           *)
(***************************************************************************)
BinPositions == (0..5) \cup (7..12)

RECURSIVE BoardsWith(_)
BoardsWith(k) ==
  IF k = 0 THEN {BoardNew(0)}
  ELSE LET smaller == BoardsWith(k - 1) IN
       smaller \cup
       {BoardIndexMut(b, p, BoardIndex(b, p) + 1) : b \in smaller, p \in BinPositions}

HeapBoards ==
  {BoardIndexMut(BoardNew(0), p, h) : p \in 0..5, h \in Cycle..MaxHeap}

InitBoards ==
  {BoardNew(s) : s \in 0..MaxStart} \cup BoardsWith(MaxTotal) \cup HeapBoards

(***************************************************************************)
(* State                                                                   *)
(***************************************************************************)
VARIABLES
  initial,   \* the Board handed to the outermost Tree::build
  stack,     \* the live Tree::build calls, outermost first
  board,     \* the closure's local copy `let mut board = board`
  index,     \* make_move_: `index`
  in_hand,   \* make_move_: `in_hand`
  res,       \* the closure's `res`; "pending" while make_move runs
  pc,        \* position in the program
  tree,      \* main: `tree`, None until Tree::build returned
  out        \* find_max_paths: `out`

vars == <<initial, stack, board, index, in_hand, res, pc, tree, out>>

Frame(b) == [board |-> b, bin |-> 0, results |-> <<>>]

Top == stack[Len(stack)]

Init ==
  /\ initial \in InitBoards
  /\ stack = <<Frame(initial)>>
  /\ board = initial
  /\ index = 0
  /\ in_hand = 0
  /\ res = "pending"
  /\ pc = "closure"
  /\ tree = None
  /\ out = <<>>

(***************************************************************************)
(* Board::make_move and Board::make_move_                                  *)
(***************************************************************************)
\* Tree::build, the closure's first statement: copy the board.
ClosureCopy ==
  /\ pc = "closure"
  /\ Top.bin < NumBins
  /\ board' = Top.board
  /\ pc' = "make_move"
  /\ UNCHANGED <<initial, stack, index, in_hand, res, tree, out>>

\* make_move without its emptiness test
MoveIsEmptyUnchecked(b, bin) == FALSE

MoveIsEmpty(b, bin) == BoardIndex(b, FlatIndexFrom(bin)) = 0

MakeMoveNone ==
  /\ pc = "make_move"
  /\ MoveIsEmpty(board, Top.bin)
  /\ res' = "None"
  /\ pc' = "map"
  /\ UNCHANGED <<initial, stack, board, index, in_hand, tree, out>>

MakeMoveSome ==
  /\ pc = "make_move"
  /\ ~MoveIsEmpty(board, Top.bin)
  /\ index' = FlatIndexFrom(Top.bin)
  /\ pc' = "take"
  /\ UNCHANGED <<initial, stack, board, in_hand, res, tree, out>>

\* the stones are read into the hand but left in the bin
TakeCopying ==
  /\ pc = "take"
  /\ in_hand' = BoardIndex(board, index)
  /\ pc' = "sow"
  /\ UNCHANGED <<initial, stack, board, index, res, tree, out>>

\* let mut in_hand = std::mem::take(&mut self[index]);
Take ==
  /\ pc = "take"
  /\ in_hand' = BoardIndex(board, index)
  /\ board' = BoardIndexMut(board, index, 0)
  /\ pc' = "sow"
  /\ UNCHANGED <<initial, stack, index, res, tree, out>>

\* the loop without its index.step(): every stone goes back where it was
SowStoneInPlace ==
  /\ pc = "sow"
  /\ in_hand > 0
  /\ board' = BoardIndexMut(board, index, Add8(BoardIndex(board, index), 1))
  /\ in_hand' = in_hand - 1
  /\ UNCHANGED <<initial, stack, index, res, pc, tree, out>>

\* one iteration of `while in_hand > 0`
SowStone ==
  /\ pc = "sow"
  /\ in_hand > 0
  /\ index' = FlatIndexStep(index)
  /\ board' = BoardIndexMut(board, index', Add8(BoardIndex(board, index'), 1))
  /\ in_hand' = in_hand - 1
  /\ UNCHANGED <<initial, stack, res, pc, tree, out>>

\* the guard `self[index] > 1` without its patterns: the store chains too
IsBinOrStore(i) == TRUE

\* the classical rule: only the player's own bins chain
IsBinOwnOnly(i) == FlatIndexKind(i).kind = "MyBins"

IsBin(i) == FlatIndexKind(i).kind \in {"TheirBins", "MyBins"}

\* first match arm: self.make_move_(index)
Chain ==
  /\ pc = "sow"
  /\ in_hand = 0
  /\ IsBin(index) /\ BoardIndex(board, index) > 1
  /\ pc' = "take"
  /\ UNCHANGED <<initial, stack, board, index, in_hand, res, tree, out>>

\* the TheirBins arm capturing like the MyBins arm
TheirCapture ==
  /\ pc = "sow"
  /\ in_hand = 0
  /\ ~(IsBin(index) /\ BoardIndex(board, index) > 1)
  /\ FlatIndexKind(index).kind = "TheirBins"
  /\ LET opp == FlatIndexOpposite(index)
         taken == BoardIndex(board, opp)
         emptied == BoardIndexMut(board, opp, 0)
     IN board' = [emptied EXCEPT !.sides[1].mancala = Add8(@, taken)]
  /\ res' = "TurnOver"
  /\ pc' = "map"
  /\ UNCHANGED <<initial, stack, index, in_hand, tree, out>>

\* the TheirBins arm answering GoAgain
TheirGoAgain ==
  /\ pc = "sow"
  /\ in_hand = 0
  /\ ~(IsBin(index) /\ BoardIndex(board, index) > 1)
  /\ FlatIndexKind(index).kind = "TheirBins"
  /\ res' = "GoAgain"
  /\ pc' = "map"
  /\ UNCHANGED <<initial, stack, board, index, in_hand, tree, out>>

TheirTurnOver ==
  /\ pc = "sow"
  /\ in_hand = 0
  /\ ~(IsBin(index) /\ BoardIndex(board, index) > 1)
  /\ FlatIndexKind(index).kind = "TheirBins"
  /\ res' = "TurnOver"
  /\ pc' = "map"
  /\ UNCHANGED <<initial, stack, board, index, in_hand, tree, out>>

\* the MyBins arm answering GoAgain after its capture
CaptureGoAgain ==
  /\ pc = "sow"
  /\ in_hand = 0
  /\ ~(IsBin(index) /\ BoardIndex(board, index) > 1)
  /\ FlatIndexKind(index).kind = "MyBins"
  /\ LET opp == FlatIndexOpposite(index)
         taken == BoardIndex(board, opp)
         emptied == BoardIndexMut(board, opp, 0)
     IN board' = [emptied EXCEPT !.sides[1].mancala = Add8(@, taken)]
  /\ res' = "GoAgain"
  /\ pc' = "map"
  /\ UNCHANGED <<initial, stack, index, in_hand, tree, out>>

\* the capture empties the opposite bin without banking its stones
CaptureDropping ==
  /\ pc = "sow"
  /\ in_hand = 0
  /\ ~(IsBin(index) /\ BoardIndex(board, index) > 1)
  /\ FlatIndexKind(index).kind = "MyBins"
  /\ board' = BoardIndexMut(board, FlatIndexOpposite(index), 0)
  /\ res' = "TurnOver"
  /\ pc' = "map"
  /\ UNCHANGED <<initial, stack, index, in_hand, tree, out>>

Capture ==
  /\ pc = "sow"
  /\ in_hand = 0
  /\ ~(IsBin(index) /\ BoardIndex(board, index) > 1)
  /\ FlatIndexKind(index).kind = "MyBins"
  /\ LET opp == FlatIndexOpposite(index)
         taken == BoardIndex(board, opp)
         emptied == BoardIndexMut(board, opp, 0)
     IN board' = [emptied EXCEPT !.sides[1].mancala = Add8(@, taken)]
  /\ res' = "TurnOver"
  /\ pc' = "map"
  /\ UNCHANGED <<initial, stack, index, in_hand, tree, out>>

GoAgain ==
  /\ pc = "sow"
  /\ in_hand = 0
  /\ FlatIndexKind(index).kind = "MyMancala"
  /\ res' = "GoAgain"
  /\ pc' = "map"
  /\ UNCHANGED <<initial, stack, board, index, in_hand, tree, out>>

(***************************************************************************)
(* Tree::build                                                             *)
(***************************************************************************)
\* the frame on top of the stack with one more slot of `results` filled
Filled(f, slot) == [f EXCEPT !.bin = @ + 1, !.results = Append(@, slot)]

ReplaceTop(f) == [stack EXCEPT ![Len(stack)] = f]

\* res.map(..) on None: the slot is None
MapNone ==
  /\ pc = "map"
  /\ res = "None"
  /\ stack' = ReplaceTop(Filled(Top, None))
  /\ res' = "pending"
  /\ pc' = "closure"
  /\ UNCHANGED <<initial, board, index, in_hand, tree, out>>

\* the Terminal node keeps the board of before the move instead of the copy
MapTurnOverStale ==
  /\ pc = "map"
  /\ res = "TurnOver"
  /\ stack' = ReplaceTop(Filled(Top, Some(TreeTurnOver(Top.board))))
  /\ res' = "pending"
  /\ pc' = "closure"
  /\ UNCHANGED <<initial, board, index, in_hand, tree, out>>

\* MoveResult::TurnOver => Tree::TurnOver(board)
MapTurnOver ==
  /\ pc = "map"
  /\ res = "TurnOver"
  /\ stack' = ReplaceTop(Filled(Top, Some(TreeTurnOver(board))))
  /\ res' = "pending"
  /\ pc' = "closure"
  /\ UNCHANGED <<initial, board, index, in_hand, tree, out>>

\* MoveResult::GoAgain => Self::build(board): a nested call
MapGoAgain ==
  /\ pc = "map"
  /\ res = "GoAgain"
  /\ stack' = Append(stack, Frame(board))
  /\ res' = "pending"
  /\ pc' = "closure"
  /\ UNCHANGED <<initial, board, index, in_hand, tree, out>>

\* Tree::Continue(Box::new(results)) returned to the calling closure
BuildReturn ==
  /\ pc = "closure"
  /\ Top.bin = NumBins
  /\ Len(stack) > 1
  /\ LET node == TreeContinue(Top.results)
         caller == stack[Len(stack) - 1]
         rest == SubSeq(stack, 1, Len(stack) - 2)
     IN stack' = Append(rest, Filled(caller, Some(node)))
  /\ UNCHANGED <<initial, board, index, in_hand, res, pc, tree, out>>

\* a root without any legal move becomes a Terminal node of its board
BuildReturnMainTerminal ==
  /\ pc = "closure"
  /\ Top.bin = NumBins
  /\ Len(stack) = 1
  /\ tree' = IF \A k \in 1..NumBins : Top.results[k] = None
             THEN Some(TreeTurnOver(Top.board))
             ELSE Some(TreeContinue(Top.results))
  /\ stack' = <<>>
  /\ pc' = "find_max_paths"
  /\ UNCHANGED <<initial, board, index, in_hand, res, out>>

\* Tree::Continue(Box::new(results)) returned to main
BuildReturnMain ==
  /\ pc = "closure"
  /\ Top.bin = NumBins
  /\ Len(stack) = 1
  /\ tree' = Some(TreeContinue(Top.results))
  /\ stack' = <<>>
  /\ pc' = "find_max_paths"
  /\ UNCHANGED <<initial, board, index, in_hand, res, out>>

(***************************************************************************)
(* Tree::find_max_paths                                                    *)
(***************************************************************************)
\* an off-by-one traversal: the last slot (bin F) is never visited
RECURSIVE helper(_, _)
helperSkippingF(t, path_so_far) ==
  IF t.tag = "TurnOver"
  THEN << <<t.board.sides[1].mancala, path_so_far>> >>
  ELSE LET visit(bin) ==
             IF t.slots[bin + 1] = None THEN <<>>
             ELSE helper(t.slots[bin + 1][1], Append(path_so_far, bin))
       IN visit(0) \o visit(1) \o visit(2) \o visit(3) \o visit(4)

\* the pushed bin counted from 1 instead of 0
helperOneBased(t, path_so_far) ==
  IF t.tag = "TurnOver"
  THEN << <<t.board.sides[1].mancala, path_so_far>> >>
  ELSE LET visit(bin) ==
             IF t.slots[bin + 1] = None THEN <<>>
             ELSE helper(t.slots[bin + 1][1], Append(path_so_far, bin + 1))
       IN visit(0) \o visit(1) \o visit(2) \o visit(3) \o visit(4) \o visit(5)

\* fn helper: the entries pushed to `out` by the traversal of t, in order.
\* visit(bin) is one iteration of the `for`: push bin, recurse, pop.
helper(t, path_so_far) ==
  IF t.tag = "TurnOver"
  THEN << <<t.board.sides[1].mancala, path_so_far>> >>
  ELSE LET visit(bin) ==
             IF t.slots[bin + 1] = None THEN <<>>
             ELSE helper(t.slots[bin + 1][1], Append(path_so_far, bin))
       IN visit(0) \o visit(1) \o visit(2) \o visit(3) \o visit(4) \o visit(5)

\* the comparator without its .reverse(): lower amounts first
PathCmpAscending(a, b) ==
  IF a[1] < b[1] THEN "Less"
  ELSE IF a[1] > b[1] THEN "Greater"
  ELSE IF Len(a[2]) < Len(b[2]) THEN "Less"
  ELSE IF Len(a[2]) > Len(b[2]) THEN "Greater"
  ELSE "Equal"

\* the comparator of out.sort_by: Less, Equal or Greater
PathCmp(a, b) ==
  IF a[1] > b[1] THEN "Less"
  ELSE IF a[1] < b[1] THEN "Greater"
  ELSE IF Len(a[2]) < Len(b[2]) THEN "Less"
  ELSE IF Len(a[2]) > Len(b[2]) THEN "Greater"
  ELSE "Equal"

\* an unstable sort: equal entries come out in reverse
SortedPositionReversingTies(v, i) ==
  1 + Cardinality({j \in 1..Len(v) :
                     \/ PathCmp(v[j], v[i]) = "Less"
                     \/ PathCmp(v[j], v[i]) = "Equal" /\ j > i})

\* slice::sort_by is a stable sort: v[i] ends up behind every entry that
\* compares Less than it and every Equal entry that came before it
SortedPosition(v, i) ==
  1 + Cardinality({j \in 1..Len(v) :
                     \/ PathCmp(v[j], v[i]) = "Less"
                     \/ PathCmp(v[j], v[i]) = "Equal" /\ j < i})

SortBy(v) ==
  [k \in 1..Len(v) |-> v[CHOOSE i \in 1..Len(v) : SortedPosition(v, i) = k]]

\* helper(self, &mut path_so_far, &mut out)
Collect ==
  /\ pc = "find_max_paths"
  /\ out' = out \o helper(tree[1], <<>>)
  /\ pc' = "sort"
  /\ UNCHANGED <<initial, stack, board, index, in_hand, res, tree>>

\* out.sort_by(..); out
SortOut ==
  /\ pc = "sort"
  /\ out' = SortBy(out)
  /\ pc' = "done"
  /\ UNCHANGED <<initial, stack, board, index, in_hand, res, tree>>

Next ==
  \/ ClosureCopy
  \/ MakeMoveNone
  \/ MakeMoveSome
  \/ Take
  \/ SowStone
  \/ Chain
  \/ TheirTurnOver
  \/ Capture
  \/ GoAgain
  \/ MapNone
  \/ MapTurnOver
  \/ MapGoAgain
  \/ BuildReturn
  \/ BuildReturnMain
  \/ Collect
  \/ SortOut

Spec == Init /\ [][Next]_vars

\* The program is sequential: whatever step is enabled is eventually taken.
FairSpec == Spec /\ WF_vars(Next)

TypeOK ==
  /\ pc \in {"closure", "make_move", "take", "sow", "map",
             "find_max_paths", "sort", "done"}
  /\ res \in {"pending", "None", "TurnOver", "GoAgain"}
  /\ index \in 0..12
  /\ in_hand \in 0..(AmountModulus - 1)

(***************************************************************************)
(* Board::make_move as a function of (board, bin): the result and the      *)
(* board it leaves                                                         *)
(***************************************************************************)
RECURSIVE sow(_, _, _)
\* `while in_hand > 1`: the last stone in hand is never sown
sowDroppingLast(b, idx, hand) ==
  IF hand <= 1 THEN [board |-> b, index |-> idx]
  ELSE LET next == FlatIndexStep(idx) IN
       sow(BoardIndexMut(b, next, Add8(BoardIndex(b, next), 1)), next, hand - 1)

\* the `while in_hand > 0` loop run to its end
sow(b, idx, hand) ==
  IF hand = 0 THEN [board |-> b, index |-> idx]
  ELSE LET next == FlatIndexStep(idx) IN
       sow(BoardIndexMut(b, next, Add8(BoardIndex(b, next), 1)), next, hand - 1)

RECURSIVE make_move_(_, _)
make_move_(b, idx) ==
  LET sown == sow(BoardIndexMut(b, idx, 0), idx, BoardIndex(b, idx))
      k == FlatIndexKind(sown.index).kind
  IN IF k \in {"TheirBins", "MyBins"} /\ BoardIndex(sown.board, sown.index) > 1
       THEN make_move_(sown.board, sown.index)
     ELSE IF k = "TheirBins"
       THEN [res |-> "TurnOver", board |-> sown.board]
     ELSE IF k = "MyBins"
       THEN LET opp == FlatIndexOpposite(sown.index)
                emptied == BoardIndexMut(sown.board, opp, 0)
            IN [res |-> "TurnOver",
                board |-> [emptied EXCEPT !.sides[1].mancala =
                             Add8(@, BoardIndex(sown.board, opp))]]
     ELSE [res |-> "GoAgain", board |-> sown.board]

make_move(b, bin) ==
  IF BoardIndex(b, FlatIndexFrom(bin)) = 0
  THEN [res |-> "None", board |-> b]
  ELSE make_move_(b, FlatIndexFrom(bin))

(***************************************************************************)
(* main: the search of Board::new(4).  Its tree has 10133 Branching nodes  *)
(* and 26278 Terminal nodes, so this specification does not keep the tree: *)
(* it runs Tree::build depth first, one make_move per step, and hands each *)
(* Terminal board to the ranker as it is built (build visits the slots in  *)
(* the order helper does).  Of the sorted `out` it keeps the prefix main   *)
(* reads; a stable sort places a later entry behind its equals, so the     *)
(* prefix of the final list is the sorted prefix so far with the new entry *)
(* inserted.                                                               *)
(***************************************************************************)
\* main: Board::new(4)
StartWith == 4
\* main: &paths[..std::cmp::min(10, paths.len())]
PrintedPrefix == 10

Min(a, b) == IF a < b THEN a ELSE b

\* path_so_far of helper at the node being built: the bin in progress of
\* every running Tree::build call
PathOf(st) == [d \in 1..Len(st) |-> st[d].bin]

Advanced(f) == [f EXCEPT !.bin = @ + 1]

InitFour ==
  /\ initial = BoardNew(StartWith)
  /\ stack = <<Frame(initial)>>
  /\ board = initial
  /\ index = 0
  /\ in_hand = 0
  /\ res = "pending"
  /\ pc = "closure"
  /\ tree = None
  /\ out = <<>>

\* the closure on an empty bin: the slot is None
FourNone ==
  /\ pc = "closure"
  /\ Top.bin < NumBins
  /\ LET m == make_move(Top.board, Top.bin) IN
     /\ m.res = "None"
     /\ board' = m.board
     /\ res' = m.res
  /\ stack' = ReplaceTop(Advanced(Top))
  /\ UNCHANGED <<initial, index, in_hand, pc, tree, out>>

\* the closure on a move that ends the turn: a Terminal node, which helper
\* pushes and sort_by ranks
FourTurnOver ==
  /\ pc = "closure"
  /\ Top.bin < NumBins
  /\ LET m == make_move(Top.board, Top.bin)
         ranked == SortBy(Append(out, <<m.board.sides[1].mancala, PathOf(stack)>>))
     IN /\ m.res = "TurnOver"
        /\ board' = m.board
        /\ res' = m.res
        /\ out' = SubSeq(ranked, 1, Min(PrintedPrefix, Len(ranked)))
  /\ stack' = ReplaceTop(Advanced(Top))
  /\ UNCHANGED <<initial, index, in_hand, pc, tree>>

\* the closure on a bonus move: Self::build(board)
FourGoAgain ==
  /\ pc = "closure"
  /\ Top.bin < NumBins
  /\ LET m == make_move(Top.board, Top.bin) IN
     /\ m.res = "GoAgain"
     /\ board' = m.board
     /\ res' = m.res
     /\ stack' = Append(stack, Frame(m.board))
  /\ UNCHANGED <<initial, index, in_hand, pc, tree, out>>

\* a nested Tree::build returns to the calling closure
FourReturn ==
  /\ pc = "closure"
  /\ Top.bin = NumBins
  /\ Len(stack) > 1
  /\ stack' = Append(SubSeq(stack, 1, Len(stack) - 2),
                     Advanced(stack[Len(stack) - 1]))
  /\ UNCHANGED <<initial, board, index, in_hand, res, pc, tree, out>>

\* the outermost Tree::build and find_max_paths return to main
FourReturnMain ==
  /\ pc = "closure"
  /\ Top.bin = NumBins
  /\ Len(stack) = 1
  /\ stack' = <<>>
  /\ pc' = "done"
  /\ UNCHANGED <<initial, board, index, in_hand, res, tree, out>>

NextFour ==
  \/ FourNone
  \/ FourTurnOver
  \/ FourGoAgain
  \/ FourReturn
  \/ FourReturnMain

SpecFour == InitFour /\ [][NextFour]_vars

(***************************************************************************)
(* Auxiliary operators of the properties                                   *)
(***************************************************************************)
RECURSIVE SumSeq(_)
SumSeq(q) == IF q = <<>> THEN 0 ELSE q[1] + SumSeq(Tail(q))

\* all stones of a board: 12 bins and both stores
Total(b) ==
  SumSeq(b.sides[1].bins) + b.sides[1].mancala
  + SumSeq(b.sides[2].bins) + b.sides[2].mancala

MyStore(b) == b.sides[1].mancala

\* the boards of the Terminal nodes of a tree
RECURSIVE TerminalBoards(_)
TerminalBoards(t) ==
  IF t.tag = "TurnOver" THEN {t.board}
  ELSE UNION {TerminalBoards(t.slots[k][1]) :
                k \in {j \in 1..Len(t.slots) : t.slots[j] # None}}

\* the Terminal boards built so far: in the finished tree and in the
\* results of the calls still running
BuiltTerminalBoards ==
  (IF tree = None THEN {} ELSE TerminalBoards(tree[1]))
  \cup UNION {TerminalBoards(TreeContinue(stack[d].results)) : d \in 1..Len(stack)}

\* a sowing segment is complete
SegmentDone == pc = "sow" /\ in_hand = 0

\* every location of the two boards but those in `except` holds the same
SameExcept(b1, b2, except) ==
  /\ \A i \in (0..12) \ except : BoardIndex(b1, i) = BoardIndex(b2, i)
  /\ b1.sides[2].mancala = b2.sides[2].mancala

(***************************************************************************)
(* Properties                                                              *)
(***************************************************************************)
\* C1: stone conservation.  Whenever no stone is in hand (after every
\* completed sowing segment, capture and move), the board being played, the
\* board of every running Tree::build call and every Terminal board built
\* hold as many stones as the initial board: 12 * s for Board::new(s).
Conservation ==
  /\ in_hand = 0 => Total(board) = Total(initial)
  /\ \A d \in 1..Len(stack) : Total(stack[d].board) = Total(initial)
  /\ \A b \in BuiltTerminalBoards : Total(b) = Total(initial)
  /\ \A s \in 0..MaxStart : initial = BoardNew(s) => Total(initial) = 12 * s

\* a capture of at least one stone has just ended a move of the search
\* from Board::new(s), s > 0, below the root
ConservationWitness ==
  /\ pc = "map" /\ res = "TurnOver" /\ index \in 0..5
  /\ initial = BoardNew(MaxStart)
  /\ Len(stack) > 1
  /\ MyStore(board) > MyStore(Top.board)

\* C2: bonus rule.  A move of a non-empty bin has returned GoAgain exactly
\* when the last stone of its final sowing segment landed in the current
\* player's store (circular index 6); otherwise it has returned TurnOver.
BonusRule ==
  (pc = "map" /\ ~MoveIsEmpty(Top.board, Top.bin)) =>
     /\ res \in {"GoAgain", "TurnOver"}
     /\ res = "GoAgain" <=> index = 6
     /\ res = "TurnOver" <=> index # 6

\* a move that chained at least once has returned GoAgain
BonusRuleWitness ==
  /\ pc = "map" /\ res = "GoAgain" /\ index = 6
  /\ \E i \in BinPositions \ {Top.bin} :
       BoardIndex(Top.board, i) > 0 /\ BoardIndex(board, i) = 0

\* C3: capture rule.  When the last stone of a segment has landed in an own
\* bin pos (0..5) that now holds exactly 1, the move returns TurnOver, the
\* store grows by the count of the bin at 12 - pos (the opponent's physical
\* bin 5 - pos), that bin becomes 0, and nothing else changes: the landing
\* bin keeps its stone.
CaptureRule ==
  [][(SegmentDone /\ index \in 0..5 /\ BoardIndex(board, index) = 1) =>
       /\ res' = "TurnOver" /\ pc' = "map"
       /\ MyStore(board') = MyStore(board) + board.sides[2].bins[(5 - index) + 1]
       /\ board'.sides[2].bins[(5 - index) + 1] = 0
       /\ BoardIndex(board', 12 - index) = 0
       /\ BoardIndex(board', index) = 1
       /\ SameExcept(board', board, {6, 12 - index})]_vars

\* a capture of at least two stones has happened
CaptureRuleWitness ==
  /\ pc = "map" /\ res = "TurnOver" /\ index \in 0..5
  /\ BoardIndex(board, index) = 1
  /\ BoardIndex(board, 12 - index) = 0
  /\ BoardIndex(Top.board, 12 - index) >= 2
  /\ MyStore(board) >= MyStore(Top.board) + 2

\* C4: chain rule.  When the last stone of a segment has landed in a bin of
\* either player that now holds more than 1, the next step changes nothing
\* on the board and returns nothing: it starts a new segment at that bin;
\* a segment picks up the entire content of its bin, leaving it 0; its
\* stones go to the positions after it; and a step that ends a segment
\* changes the board only when it ends the move.
ChainRule ==
  [][/\ (SegmentDone /\ index # 6 /\ BoardIndex(board, index) > 1) =>
          (pc' = "take" /\ res' = "pending" /\ board' = board /\ index' = index)
     /\ pc = "take" =>
          /\ pc' = "sow" /\ index' = index
          /\ in_hand' = BoardIndex(board, index)
          /\ BoardIndex(board', index) = 0
          /\ SameExcept(board', board, {index})
     /\ (pc = "sow" /\ in_hand > 0) =>
          /\ index' = (index + 1) % 13
          /\ BoardIndex(board', index') = BoardIndex(board, index') + 1
          /\ SameExcept(board', board, {index'})
     /\ (SegmentDone /\ board' # board) =>
          (pc' = "map" /\ res' = "TurnOver")]_vars

\* a new segment is about to start from an opponent's bin holding more
\* than one stone, in the middle of a move
ChainRuleWitness ==
  /\ pc = "take" /\ index \in 7..12
  /\ BoardIndex(board, index) > 1
  /\ board # Top.board

\* C5: illegal move.  make_move of a bin of the current player whose count
\* is 0 returns None and leaves the board as it was.
IllegalMove ==
  [][(pc = "make_move" /\ BoardIndex(board, Top.bin) = 0) =>
       (res' = "None" /\ pc' = "map" /\ board' = board /\ board' = Top.board)]_vars

\* make_move has returned None on a board that holds stones
IllegalMoveWitness ==
  /\ pc = "map" /\ res = "None"
  /\ BoardIndex(board, Top.bin) = 0
  /\ Total(board) > 0
  /\ board = Top.board

\* slot is what Tree::build puts at bin b of a node built from board B
RECURSIVE TreeOk(_, _)
SlotOk(slot, B, b) ==
  LET m == make_move(B, b) IN
  /\ slot # None <=> BoardIndex(B, b) # 0
  /\ slot # None =>
       /\ m.res \in {"TurnOver", "GoAgain"}
       /\ m.res = "TurnOver" => slot[1] = TreeTurnOver(m.board)
       /\ m.res = "GoAgain" => TreeOk(slot[1], m.board)

TreeOk(t, B) ==
  /\ t.tag = "Continue"
  /\ Len(t.slots) = NumBins
  /\ \A b \in 0..(NumBins - 1) : SlotOk(t.slots[b + 1], B, b)

\* C6: tree shape.  In every Branching node built from a board B, finished
\* or still being filled, slot b is present exactly when bin b of B is
\* non-empty; a present slot is Terminal(B') when make_move(B, b) returns
\* TurnOver leaving B', and the tree built from B' when it returns GoAgain.
TreeShape ==
  /\ tree # None => TreeOk(tree[1], initial)
  /\ \A d \in 1..Len(stack) :
       \A b \in 0..(Len(stack[d].results) - 1) :
         SlotOk(stack[d].results[b + 1], stack[d].board, b)

\* a finished tree whose root has an absent slot, a Terminal slot and a
\* Branching slot
TreeShapeWitness ==
  /\ tree # None
  /\ \E k \in 1..NumBins : tree[1].slots[k] = None
  /\ \E k \in 1..NumBins :
       tree[1].slots[k] # None /\ tree[1].slots[k][1].tag = "TurnOver"
  /\ \E k \in 1..NumBins :
       tree[1].slots[k] # None /\ tree[1].slots[k][1].tag = "Continue"

Missing == [tag |-> "Missing"]

\* the node a sequence of bin choices leads to from the root t
RECURSIVE NodeAt(_, _)
NodeAt(t, path) ==
  IF path = <<>> THEN t
  ELSE IF t.tag # "Continue" THEN Missing
  ELSE IF t.slots[path[1] + 1] = None THEN Missing
  ELSE NodeAt(t.slots[path[1] + 1][1], Tail(path))

RECURSIVE NumTerminals(_)
NumTerminals(t) ==
  IF t.tag = "TurnOver" THEN 1
  ELSE LET count(k) == IF t.slots[k] = None THEN 0 ELSE NumTerminals(t.slots[k][1])
       IN count(1) + count(2) + count(3) + count(4) + count(5) + count(6)

\* C7: ranker completeness.  The list built by find_max_paths has as many
\* entries as the tree has Terminal nodes, no two entries have the same
\* move-sequence, every move-sequence leads from the root to a Terminal
\* node, and the entry's score is that node's current-player store.
RankerComplete ==
  pc \in {"sort", "done"} =>
    /\ Len(out) = NumTerminals(tree[1])
    /\ \A i \in 1..Len(out) :
         LET n == NodeAt(tree[1], out[i][2]) IN
         /\ n.tag = "TurnOver"
         /\ out[i][1] = n.board.sides[1].mancala
    /\ \A i, j \in 1..Len(out) : i # j => out[i][2] # out[j][2]

\* a returned list with an entry through bin F, entries of length 1 and
\* longer, and different scores
RankerCompleteWitness ==
  /\ pc = "done"
  /\ \E i, j, k \in 1..Len(out) :
       /\ Len(out[i][2]) = 1 /\ Len(out[j][2]) >= 2
       /\ out[i][1] # out[j][1]
       /\ out[k][2][Len(out[k][2])] = 5

\* C8: ranking order.  In the returned list every entry's score is at least
\* the next entry's, and at equal scores its move-sequence is not longer.
RankingOrder ==
  pc = "done" =>
    \A i \in 1..(Len(out) - 1) :
      /\ out[i][1] >= out[i + 1][1]
      /\ out[i][1] = out[i + 1][1] => Len(out[i][2]) <= Len(out[i + 1][2])

\* a returned list that the traversal did not produce in order, with a
\* strict score step and a strict length step at equal scores
RankingOrderWitness ==
  /\ pc = "done"
  /\ out # helper(tree[1], <<>>)
  /\ \E i \in 1..(Len(out) - 1) : out[i][1] > out[i + 1][1]
  /\ \E i \in 1..(Len(out) - 1) :
       out[i][1] = out[i + 1][1] /\ Len(out[i][2]) < Len(out[i + 1][2])

\* C9: search termination.  Every run of the search reaches the end of
\* find_max_paths: no sequence of bonus moves goes on for ever.
SearchTerminates == <>(pc = "done")

\* a search that went at least three bonus moves deep has finished
SearchTerminatesWitness ==
  /\ pc = "done"
  /\ \E i \in 1..Len(out) : Len(out[i][2]) >= 4

\* C10 as stated: from Board::new(0) the result holds exactly one terminal
\* state.
DegenerateStartOneTerminal ==
  (pc = "done" /\ initial = BoardNew(0)) =>
    (NumTerminals(tree[1]) = 1 /\ Len(out) = 1)

\* C10 amended: from Board::new(0) no move is ever made, the tree is a
\* Branching root with all six slots absent and no Terminal node, and the
\* ranked list is empty.
DegenerateStartEmpty ==
  initial = BoardNew(0) =>
    /\ res \in {"pending", "None"}
    /\ pc \notin {"take", "sow"}
    /\ tree # None =>
         /\ tree[1] = TreeContinue([k \in 1..NumBins |-> None])
         /\ NumTerminals(tree[1]) = 0
    /\ out = <<>>

\* the search from Board::new(0) has finished
DegenerateStartWitness ==
  /\ pc = "done"
  /\ initial = BoardNew(0)
  /\ tree # None

\* replaying path from board b with make_move: every chosen bin is
\* non-empty when chosen, every move but the last returns GoAgain, the last
\* returns TurnOver and leaves `score` in the current player's store
RECURSIVE ReplayOk(_, _, _)
ReplayOk(b, path, score) ==
  /\ path # <<>>
  /\ path[1] \in 0..(NumBins - 1)
  /\ BoardIndex(b, path[1]) # 0
  /\ LET m == make_move(b, path[1]) IN
     IF Len(path) = 1
     THEN m.res = "TurnOver" /\ MyStore(m.board) = score
     ELSE m.res = "GoAgain" /\ ReplayOk(m.board, Tail(path), score)

\* C11: legality by replay.  Every entry of the returned list replays from
\* the initial board: each bin is non-empty when chosen, all moves but the
\* last return GoAgain, the last returns TurnOver, and the store then
\* equals the entry's score.
LegalByReplay ==
  pc = "done" => \A i \in 1..Len(out) : ReplayOk(initial, out[i][2], out[i][1])

\* a returned list with an entry of at least three moves and a score of at
\* least two
LegalByReplayWitness ==
  /\ pc = "done"
  /\ \E i \in 1..Len(out) : Len(out[i][2]) >= 3 /\ out[i][1] >= 2

\* the board a sequence of moves leaves
RECURSIVE ReplayBoard(_, _)
ReplayBoard(b, path) ==
  IF path = <<>> THEN b
  ELSE ReplayBoard(make_move(b, path[1]).board, Tail(path))

\* C12: scenario for starting count 4.  The ranked list is non-empty, every
\* entry has at least one move (every Terminal board is built below the
\* root and holds 48 stones), and the first entry's score plus the stones
\* in all other locations of its Terminal board is 48.
ScenarioFour ==
  /\ \A i \in 1..Len(out) : Len(out[i][2]) >= 1
  /\ res = "TurnOver" => (Len(stack) >= 1 /\ Total(board) = 48)
  /\ pc = "done" =>
       /\ out # <<>>
       /\ ReplayOk(initial, out[1][2], out[1][1])
       /\ LET b == ReplayBoard(initial, out[1][2]) IN
          out[1][1] + (Total(b) - MyStore(b)) = 48

\* the search of Board::new(4) has returned: ten entries to print, the
\* first with score 44 after 26 moves
ScenarioFourWitness ==
  /\ pc = "done"
  /\ initial = BoardNew(4)
  /\ Len(out) = PrintedPrefix
  /\ out[1][1] = 44
  /\ Len(out[1][2]) = 26

\* how many of the n positions after p, counted round the 13-slot cycle,
\* are loc
Visits(p, n, loc) == Cardinality({k \in 1..n : (p + k) % 13 = loc})

\* r is the outcome of picking up the content of position p of board b and
\* sowing it
SegmentOutcome(b, p, r) ==
  LET n == BoardIndex(b, p) IN
  /\ r.index = (p + n) % 13
  /\ \A loc \in 0..12 :
       BoardIndex(r.board, loc) =
         (IF loc = p THEN 0 ELSE BoardIndex(b, loc)) + Visits(p, n, loc)
  /\ r.board.sides[2].mancala = b.sides[2].mancala

\* C13: single sowing segment.  Picking up the n > 0 stones of position p
\* empties it; sowing them adds one stone to each of the positions
\* (p + 1) % 13 .. (p + n) % 13, the source included on a later lap, and
\* ends at (p + n) % 13.  The pick-up starts a sowing with that outcome and
\* every stone sown leaves the outcome of the rest of the sowing the same.
SowingSegment ==
  [][/\ pc = "take" =>
          /\ BoardIndex(board, index) > 0
          /\ in_hand' = BoardIndex(board, index)
          /\ BoardIndex(board', index) = 0
          /\ SegmentOutcome(board, index, sow(board', index', in_hand'))
     /\ (pc = "sow" /\ in_hand > 0) =>
          /\ pc' = "sow"
          /\ sow(board', index', in_hand') = sow(board, index, in_hand)
     /\ (pc = "sow" /\ in_hand = 0) =>
          sow(board, index, in_hand) = [board |-> board, index |-> index]]_vars

\* the first segment of a move of at least 13 stones is complete: the
\* source bin has received a stone
SowingSegmentWitness ==
  /\ SegmentDone
  /\ BoardIndex(Top.board, Top.bin) >= 13
  /\ index = (Top.bin + BoardIndex(Top.board, Top.bin)) % 13
  /\ BoardIndex(board, Top.bin) = 1
  /\ \A loc \in (0..12) \ {Top.bin, index} :
       BoardIndex(board, loc) = BoardIndex(Top.board, loc) + 1

\* C14: landing in an empty opponent bin.  When the last stone of a segment
\* has landed in an opponent's bin (7..12) that now holds exactly 1, the
\* move returns TurnOver and the board stays as the sowing left it: nothing
\* is captured, no store and no bin changes.
EmptyTheirBin ==
  [][(SegmentDone /\ index \in 7..12 /\ BoardIndex(board, index) = 1) =>
       /\ res' = "TurnOver" /\ pc' = "map"
       /\ board' = board
       /\ MyStore(board') = MyStore(board)
       /\ BoardIndex(board', 12 - index) = BoardIndex(board, 12 - index)]_vars

\* a move has ended in an opponent's bin holding one stone, opposite a
\* non-empty bin of the current player
EmptyTheirBinWitness ==
  /\ pc = "map" /\ res = "TurnOver"
  /\ index \in 7..12
  /\ BoardIndex(board, index) = 1
  /\ BoardIndex(board, 12 - index) > 0

\* C15: banked stones never re-enter play.  No sowing segment starts from
\* the current player's store (index 6); no step of a move lowers the
\* store; a finished move leaves at least the store it found, and a GoAgain
\* move at least one stone more; so along every sequence of bonus moves
\* each nested Tree::build works on a larger store than its caller.
BankedForGood ==
  [][/\ pc = "take" => (index # 6 /\ index' # 6)
     /\ pc \in {"make_move", "take", "sow"} => MyStore(board') >= MyStore(board)
     /\ pc' = "map" => MyStore(board') >= MyStore(Top.board)
     /\ (pc' = "map" /\ res' = "GoAgain") => MyStore(board') >= MyStore(Top.board) + 1
     /\ \A d \in 1..(Len(stack') - 1) :
          MyStore(stack'[d + 1].board) >= MyStore(stack'[d].board) + 1]_vars

\* a third bonus move in a row has been made, with three stones banked
BankedForGoodWitness ==
  /\ pc = "map" /\ res = "GoAgain"
  /\ Len(stack) >= 3
  /\ MyStore(board) >= 3
  /\ MyStore(board) > MyStore(Top.board)

\* every bin and store of b holds between 0 and limit stones
CountsWithin(b, limit) ==
  /\ \A loc \in 0..12 : BoardIndex(b, loc) \in 0..limit
  /\ b.sides[2].mancala \in 0..limit

\* C16: count bounds and no 8-bit overflow.  With at most 255 stones on the
\* initial board (12 * s for Board::new(s)), every bin, every store and the
\* hand stay between 0 and that total, on the board being played and on the
\* board of every running Tree::build call; so each `+= 1` of the sowing
\* and the `+=` of the capture add without leaving 0..255, and the hand is
\* above 0 whenever `in_hand -= 1` runs.
CountBounds ==
  /\ [](Total(initial) <= 255 =>
          /\ CountsWithin(board, Total(initial))
          /\ in_hand \in 0..Total(initial)
          /\ \A d \in 1..Len(stack) : CountsWithin(stack[d].board, Total(initial))
          /\ \A s \in 0..MaxStart :
               initial = BoardNew(s) => CountsWithin(board, 12 * s))
  /\ [][/\ (pc = "sow" /\ in_hand > 0) =>
             /\ BoardIndex(board, index') + 1 <= 255
             /\ BoardIndex(board', index') = BoardIndex(board, index') + 1
             /\ in_hand' = in_hand - 1 /\ in_hand' >= 0
        /\ (SegmentDone /\ index \in 0..5 /\ BoardIndex(board, index) = 1) =>
             /\ MyStore(board) + BoardIndex(board, 12 - index) <= 255
             /\ MyStore(board') = MyStore(board) + BoardIndex(board, 12 - index)]_vars

\* in the search of Board::new(2) a location holds at least 5 stones while
\* stones are still in hand
CountBoundsWitness ==
  /\ pc = "sow" /\ in_hand > 0
  /\ initial = BoardNew(2)
  /\ \E loc \in 0..12 : BoardIndex(board, loc) >= 5

\* the largest number of present slots of a Branching node of t
RECURSIVE MaxPresentSlots(_)
MaxPresentSlots(t) ==
  IF t.tag = "TurnOver" THEN 0
  ELSE LET present == {k \in 1..Len(t.slots) : t.slots[k] # None}
           below == {MaxPresentSlots(t.slots[k][1]) : k \in present}
           here == Cardinality(present)
       IN IF \E n \in below : n > here
          THEN CHOOSE n \in below : \A m \in below : m <= n
          ELSE here

\* C17: depth bound.  Every Terminal node is built at a depth of at most
\* the number of stones of the initial board, so no move-sequence of the
\* ranked list is longer than that; and no Branching node, finished or
\* being filled, has more than 6 present slots.
DepthBound ==
  /\ (pc = "map" /\ res = "TurnOver") => Len(stack) <= Total(initial)
  /\ \A i \in 1..Len(out) : Len(out[i][2]) <= Total(initial)
  /\ \A d \in 1..Len(stack) :
       /\ Len(stack[d].results) <= 6
       /\ MaxPresentSlots(TreeContinue(stack[d].results)) <= 6
  /\ tree # None => MaxPresentSlots(tree[1]) <= 6

\* the returned list holds a move-sequence as long as the initial board
\* has stones, three or more
DepthBoundWitness ==
  /\ pc = "done"
  /\ Total(initial) >= 3
  /\ \E i \in 1..Len(out) : Len(out[i][2]) = Total(initial)

\* C18: chain termination.  Every make_move call returns: the chained
\* sowing segments of one move are finitely many and end in GoAgain,
\* TurnOver or, for an empty bin, None.
ChainTerminates == (pc = "make_move") ~> (pc = "map")

\* a move has returned after picking up at least four different bins
ChainTerminatesWitness ==
  /\ pc = "map" /\ res \in {"GoAgain", "TurnOver"}
  /\ Cardinality({i \in BinPositions :
                    BoardIndex(Top.board, i) > 0 /\ BoardIndex(board, i) = 0}) >= 4

\* C19: the opponent's store is untouched.  The sowing index stays within
\* the 13 slots 0..12, none of which is the opponent's store, and on the
\* board being played, on the board of every running Tree::build call and
\* on every Terminal board the opponent's store holds what it held on the
\* initial board: 0.
TheirStoreUntouched ==
  /\ index \in 0..12
  /\ initial.sides[2].mancala = 0
  /\ board.sides[2].mancala = 0
  /\ \A d \in 1..Len(stack) : stack[d].board.sides[2].mancala = 0
  /\ \A b \in BuiltTerminalBoards : b.sides[2].mancala = 0

\* a sowing has gone round past the opponent's bins, by the current
\* player's store, back to the current player's side
TheirStoreUntouchedWitness ==
  /\ pc = "sow"
  /\ index \in 0..5 /\ index < Top.bin
  /\ MyStore(board) > MyStore(Top.board)
  /\ board.sides[2].mancala = 0

\* p comes before q in lexicographic order (bins A < B < .. < F)
LexLess(p, q) ==
  \E k \in 1..Min(Len(p), Len(q)) :
    /\ p[k] < q[k]
    /\ \A m \in 1..(k - 1) : p[m] = q[m]

\* C20: deterministic tie order.  In the returned list, entries of equal
\* score and equal move-sequence length stand in the lexicographic order of
\* their move-sequences, the order in which the traversal pushed them.
TieOrder ==
  pc = "done" =>
    \A i, j \in 1..Len(out) :
      (i < j /\ out[i][1] = out[j][1] /\ Len(out[i][2]) = Len(out[j][2])) =>
        LexLess(out[i][2], out[j][2])

\* a returned list with two adjacent entries of equal score and length
\* that differ in their first move, and two that differ only later
TieOrderWitness ==
  /\ pc = "done"
  /\ \E i \in 1..(Len(out) - 1) :
       /\ out[i][1] = out[i + 1][1] /\ Len(out[i][2]) = Len(out[i + 1][2])
       /\ out[i][2][1] < out[i + 1][2][1]
  /\ \E i \in 1..(Len(out) - 1) :
       /\ out[i][1] = out[i + 1][1] /\ Len(out[i][2]) = Len(out[i + 1][2])
       /\ Len(out[i][2]) >= 2
       /\ out[i][2][1] = out[i + 1][2][1]

====
